---------------------------- MODULE Spec2Model ----------------------------
(***************************************************************************)
(* Model of ferranbt/blocktracker: the bounded block history, the          *)
(* reconciliation of a newly observed head against it (handleReconcile /   *)
(* backfill), and the polling worker that drives it (Start / polling).     *)
(*                                                                         *)
(* A block is the record [hash, parent] (the Block interface: Hash() and   *)
(* ParentHash()).  Hashes are the numbers 1..NumBlocks; NoHash stands for  *)
(* a hash no block has (the parent hash of the oldest block).              *)
(***************************************************************************)
EXTENDS Integers, Sequences, FiniteSets, TLC

\* const maxReconcileBlocks = 10
maxReconcileBlocks == 10

\* Length of the main chain 1 <- 2 <- ... <- MainLen held by the remote node.
MainLen == 13

\* Length of the competing branch MainLen+1 <- ... <- MainLen+ForkLen.
ForkLen == 2

\* The competing branch forks off one of the blocks 0..MaxForkPoint of the
\* main chain (0: it shares no block with the main chain).
MaxForkPoint == 1

\* A call's k-th BlockByHash request can fail, for k up to MaxFailAt.
MaxFailAt == 2

\* The logged worker hands off at most MaxDeliveries values.
MaxDeliveries == 2

NoHash == 0

\* No answer of BlockByNumber at hand.
NoPoll == -1

NumBlocks == MainLen + ForkLen

Hashes == 1..NumBlocks

VARIABLES
    forkParent, \* hash the first block of the competing branch builds on
    blocks,     \* BlockTracker.blocks: the history, oldest first
    reconcile,  \* BlockTracker.reconcile
    lastCall,   \* the last handleReconcile call: its argument, the history
                \* before it, what it fetched and how it ended
    grown,      \* the arguments of all calls so far, while each was the
                \* direct child of the one before (at most 10); else <<>>
    pc,         \* where the polling goroutine is
    lastBlock,  \* polling's local lastBlock
    timerFired, \* the time.After channel of the current select is ready
    cancelled,  \* ctx.Done() is closed
    pending,    \* the value the goroutine is sending on EventCh
    received,   \* the last value the consumer took from EventCh
    polled,     \* what BlockByNumber returned in the loop iteration that
                \* is running or that ended at a continue: the hash of the
                \* head, NoHash for an error; NoPoll before the first
                \* answer, once a callback has returned and once the
                \* select that follows is left
    produced,   \* the values sent on EventCh so far, in order (kept by
                \* the logged worker only)
    consumed    \* the values the consumer took so far, in order (kept by
                \* the logged worker only)

vars == <<forkParent, blocks, reconcile, lastCall, grown, pc, lastBlock,
          timerFired, cancelled, pending, received, polled, produced,
          consumed>>

workerVars == <<pc, lastBlock, timerFired, cancelled, pending, received,
                polled, produced, consumed>>

logVars == <<produced, consumed>>

---------------------------------------------------------------------------
(* Blocks and the remote node                                              *)

\* Block.ParentHash() of the block whose hash is h.
ParentOf(h) ==
    IF h = MainLen + 1 THEN forkParent ELSE h - 1

\* The block whose Hash() is h.
BlockOf(h) == [hash |-> h, parent |-> ParentOf(h)]

\* The nil Block.
NoBlock == [hash |-> NoHash, parent |-> NoHash]

\* How the remote node answers during one call: failAt = k > 0 makes the
\* k-th BlockByHash request of the call fail, failAt = 0 none.
FailPoints == 0..MaxFailAt

\* EthClient.BlockByHash, as the n-th request of a call: the block with that
\* hash, or an error (no block has that hash, or the request fails).
BlockByHash(failAt, n, hash) ==
    IF hash \in Hashes /\ n # failAt
    THEN [err |-> FALSE, block |-> BlockOf(hash)]
    ELSE [err |-> TRUE, block |-> NoBlock]

---------------------------------------------------------------------------
(* The history buffer                                                      *)

\* addBlock that never evicts.
addBlockNoEvict(bs, block) == Append(bs, block)

\* addBlock that evicts one entry too early.
addBlockEarlyEvict(bs, block) ==
    IF Len(bs) >= maxReconcileBlocks - 1
    THEN Append(Tail(bs), block)
    ELSE Append(bs, block)

addBlock(bs, block) ==
    IF Len(bs) = maxReconcileBlocks
    THEN Append(Tail(bs), block)
    ELSE Append(bs, block)

\* exists that looks at the newest entry only.
existsLastOnly(bs, block) ==
    Len(bs) > 0 /\ bs[Len(bs)].hash = block.hash

exists(bs, block) ==
    \E i \in 1..Len(bs) : bs[i].hash = block.hash

\* parentHashInHistory that reports the position counted from 1.
parentHashInHistoryFromOne(bs, hash) ==
    IF \E i \in 1..Len(bs) : bs[i].hash = hash
    THEN CHOOSE i \in 1..Len(bs) : bs[i].hash = hash
    ELSE -1

\* The 0-based index of the first entry with that hash, or -1.
parentHashInHistory(bs, hash) ==
    IF \E i \in 1..Len(bs) : bs[i].hash = hash
    THEN (CHOOSE i \in 1..Len(bs) :
              /\ bs[i].hash = hash
              /\ \A j \in 1..(i - 1) : bs[j].hash # hash) - 1
    ELSE -1

---------------------------------------------------------------------------
(* The event of one reconciliation                                         *)
(* handleReconcile of blocktracker.go returns nothing; the Event that the  *)
(* test of the reconciler and the command line tool read (Added, Removed)  *)
(* is recorded here as the design document describes it: every appended    *)
(* block is Added, every truncated block is Removed, in the order of the   *)
(* mutations.  Evictions by capacity are not recorded.                     *)

\* The absent event: nothing added, nothing removed.
NoEvent == [Added |-> <<>>, Removed |-> <<>>]

\* Record a block appended to the history.
AddBlockEvent(ev, block) == [ev EXCEPT !.Added = Append(@, block)]

\* Record the blocks truncated from the history, oldest first.
RemoveBlocksEvent(ev, bs) == [ev EXCEPT !.Removed = @ \o bs]

---------------------------------------------------------------------------
(* handleReconcile and backfill                                            *)
(* The running state of one call: the history, the event so far, the       *)
(* hashes asked of the remote so far, and whether the call has panicked.   *)

NewCall(bs) ==
    [blocks |-> bs, ev |-> NoEvent, fetched |-> <<>>, panic |-> FALSE]

\* b.addBlock(block) inside handleReconcile, with the event entry.
Add(st, block) ==
    [st EXCEPT !.blocks = addBlock(@, block),
               !.ev = AddBlockEvent(@, block)]

\* The truncation b.blocks[:indx], which drops the fork point too.
TruncateForkPoint(st, indx) ==
    [st EXCEPT !.blocks = SubSeq(@, 1, indx),
               !.ev = RemoveBlocksEvent(@, SubSeq(st.blocks, indx + 1, Len(st.blocks)))]

\* b.blocks = b.blocks[:indx+1], with the event entries.
Truncate(st, indx) ==
    [st EXCEPT !.blocks = SubSeq(@, 1, indx + 1),
               !.ev = RemoveBlocksEvent(@, SubSeq(st.blocks, indx + 2, Len(st.blocks)))]

RECURSIVE handleReconcile(_, _, _)
RECURSIVE backfill(_, _, _)

\* handleReconcile that appends every block whose parent it knows: neither
\* the check for a block already held nor the rollback.
handleReconcileAppendOnly(st, block, failAt) ==
    IF st.panic THEN st
    ELSE IF Len(st.blocks) = 0 THEN Add(st, block)
    ELSE IF parentHashInHistory(st.blocks, block.parent) # -1 THEN Add(st, block)
    ELSE backfill(st, block, failAt)

\* handleReconcile without the rollback: a block whose parent is anywhere
\* in the history is appended.
handleReconcileNoRollback(st, block, failAt) ==
    IF st.panic THEN st
    ELSE IF Len(st.blocks) = 0 THEN Add(st, block)
    ELSE IF exists(st.blocks, block) THEN st
    ELSE IF parentHashInHistory(st.blocks, block.parent) # -1 THEN Add(st, block)
    ELSE backfill(st, block, failAt)

handleReconcile(st, block, failAt) ==
    IF st.panic THEN st
    ELSE IF Len(st.blocks) = 0 THEN Add(st, block)
    ELSE IF exists(st.blocks, block) THEN st
    ELSE IF st.blocks[Len(st.blocks)].hash = block.parent THEN Add(st, block)
    ELSE LET indx == parentHashInHistory(st.blocks, block.parent) IN
         IF indx # -1
         THEN Add(Truncate(st, indx), block)
         ELSE backfill(st, block, failAt)

\* backfill that takes a block whose parent hash is the zero hash for the
\* start of the chain and adds it without a request.
backfillFromGenesis(st, block, failAt) ==
    LET r   == BlockByHash(failAt, Len(st.fetched) + 1, block.parent)
        st1 == [st EXCEPT !.fetched = Append(@, block.parent)]
    IN  IF block.parent = NoHash
        THEN Add(st, block)
        ELSE IF r.err
        THEN [st1 EXCEPT !.panic = TRUE]
        ELSE handleReconcile(handleReconcile(st1, r.block, failAt), block, failAt)

\* backfill that asks for the parent a second time before it gives up or
\* goes on.
backfillRetry(st, block, failAt) ==
    LET st0 == [st EXCEPT !.fetched = Append(@, block.parent)]
        r   == BlockByHash(failAt, Len(st0.fetched) + 1, block.parent)
        st1 == [st0 EXCEPT !.fetched = Append(@, block.parent)]
    IN  IF r.err
        THEN [st1 EXCEPT !.panic = TRUE]
        ELSE handleReconcile(handleReconcile(st1, r.block, failAt), block, failAt)

\* backfill that reconciles the fetched parent and forgets the block.
backfillParentOnly(st, block, failAt) ==
    LET r   == BlockByHash(failAt, Len(st.fetched) + 1, block.parent)
        st1 == [st EXCEPT !.fetched = Append(@, block.parent)]
    IN  IF r.err
        THEN [st1 EXCEPT !.panic = TRUE]
        ELSE handleReconcile(st1, r.block, failAt)

\* backfill that drops the current head before it asks for the parent.
backfillDropHead(st, block, failAt) ==
    LET r   == BlockByHash(failAt, Len(st.fetched) + 1, block.parent)
        st1 == [st EXCEPT !.fetched = Append(@, block.parent),
                          !.blocks = SubSeq(@, 1, Len(@) - 1)]
    IN  IF r.err
        THEN [st1 EXCEPT !.panic = TRUE]
        ELSE handleReconcile(handleReconcile(st1, r.block, failAt), block, failAt)

backfill(st, block, failAt) ==
    LET r   == BlockByHash(failAt, Len(st.fetched) + 1, block.parent)
        st1 == [st EXCEPT !.fetched = Append(@, block.parent)]
    IN  IF r.err
        THEN [st1 EXCEPT !.panic = TRUE]
        ELSE handleReconcile(handleReconcile(st1, r.block, failAt), block, failAt)

---------------------------------------------------------------------------
(* State after NewBlockTracker                                             *)

NoCall ==
    [block |-> NoBlock, before |-> <<>>, failAt |-> 0, ev |-> NoEvent,
     fetched |-> <<>>, panic |-> FALSE]

Init ==
    /\ forkParent \in 0..MaxForkPoint
    /\ blocks = <<>>
    /\ reconcile \in BOOLEAN
    /\ lastCall = NoCall
    /\ grown = <<>>
    /\ pc = "new"
    /\ lastBlock = NoBlock
    /\ timerFired = FALSE
    /\ cancelled = FALSE
    /\ pending = NoBlock
    /\ received = NoBlock
    /\ polled = NoPoll
    /\ produced = <<>>
    /\ consumed = <<>>

\* The record of a finished call.  failAt is the request of the call that
\* the remote was made to fail, 0 when the call made fewer requests.
CallRecord(block, before, failAt, st) ==
    [block |-> block, before |-> before,
     failAt |-> IF failAt \in 1..Len(st.fetched) THEN failAt ELSE 0,
     ev |-> st.ev, fetched |-> st.fetched, panic |-> st.panic]

\* The calls so far, extended by a call of block, while they form a run of
\* direct children that started on the empty history.
Grow(block) ==
    IF lastCall = NoCall THEN <<block>>
    ELSE IF /\ grown # <<>>
            /\ Len(grown) < maxReconcileBlocks
            /\ block.parent = grown[Len(grown)].hash
         THEN Append(grown, block)
         ELSE <<>>

\* One call b.handleReconcile(block), the remote failing at request failAt.
Call(block, failAt) ==
    LET st == handleReconcile(NewCall(blocks), block, failAt) IN
        /\ blocks' = st.blocks
        /\ lastCall' = CallRecord(block, blocks, failAt, st)
        /\ grown' = Grow(block)

---------------------------------------------------------------------------
(* The tracker driven directly                                             *)

\* tracker.handleReconcile(block) called on a tracker that was not started,
\* as TestReconcile does.  A panic ends the calling process.
Reconcile(h, failAt) ==
    /\ pc = "new"
    /\ ~lastCall.panic
    /\ Call(BlockOf(h), failAt)
    /\ UNCHANGED <<forkParent, reconcile, workerVars>>

Next ==
    \E h \in Hashes, failAt \in FailPoints : Reconcile(h, failAt)

\* TestReconcile builds its tracker with NewBlockTracker(nil, client, false).
InitTest == Init /\ reconcile = FALSE

Spec == InitTest /\ [][Next]_vars

---------------------------------------------------------------------------
(* The polling worker: Start, polling, and the consumer of EventCh         *)

\* Start: polling spawns the goroutine, which enters its first select.
Start ==
    /\ pc = "new"
    /\ pc' = "select"
    /\ timerFired' = FALSE
    /\ UNCHANGED <<forkParent, blocks, reconcile, lastCall, grown,
                   lastBlock, cancelled, pending, received, polled, logVars>>

\* blockPollInterval has passed: <-time.After(...) becomes ready.  The
\* timer is created when the select is entered and runs for 4 seconds: once
\* ctx.Done() is closed the select is left through that case before the
\* timer of this select can fire.
TimerFire ==
    /\ pc = "select"
    /\ ~timerFired
    /\ ~cancelled
    /\ timerFired' = TRUE
    /\ UNCHANGED <<forkParent, blocks, reconcile, lastCall, grown,
                   pc, lastBlock, cancelled, pending, received, polled, logVars>>

\* The application calls cancel(), which main does after tracker.Start(ctx).
Cancel ==
    /\ pc # "new"
    /\ ~cancelled
    /\ cancelled' = TRUE
    /\ UNCHANGED <<forkParent, blocks, reconcile, lastCall, grown,
                   pc, lastBlock, timerFired, pending, received, polled, logVars>>

\* SelectDone with break in place of return: break leaves the select, not
\* the for loop.
SelectDoneBreak ==
    /\ pc = "select"
    /\ cancelled
    /\ pc' = "select"
    /\ timerFired' = FALSE
    /\ UNCHANGED <<forkParent, blocks, reconcile, lastCall, grown,
                   lastBlock, cancelled, pending, received, polled, logVars>>

\* select takes case <-ctx.Done(): return.  When the timer is ready too,
\* select picks either case.
SelectDone ==
    /\ pc = "select"
    /\ cancelled
    /\ pc' = "returned"
    /\ polled' = NoPoll
    /\ UNCHANGED <<forkParent, blocks, reconcile, lastCall, grown,
                   lastBlock, timerFired, cancelled, pending, received,
                   logVars>>

\* select takes case <-time.After(...): BlockByNumber(ctx, nil) is sent.
SelectTick ==
    /\ pc = "select"
    /\ timerFired
    /\ pc' = "fetching"
    /\ polled' = NoPoll
    /\ UNCHANGED <<forkParent, blocks, reconcile, lastCall, grown,
                   lastBlock, timerFired, cancelled, pending, received,
                   logVars>>

\* Back to the top of the for loop: a new select with a new timer.
Continue ==
    /\ pc' = "select"
    /\ timerFired' = FALSE

\* HeadError with lastBlock assigned before err is looked at: the nil
\* block of the failed call becomes the head last seen.
HeadErrorForgets ==
    /\ pc = "fetching"
    /\ polled' = NoHash
    /\ lastBlock' = NoBlock
    /\ Continue
    /\ UNCHANGED <<forkParent, blocks, reconcile, lastCall, grown,
                   cancelled, pending, received, logVars>>

\* BlockByNumber returned an error: continue.
HeadError ==
    /\ pc = "fetching"
    /\ polled' = NoHash
    /\ Continue
    /\ UNCHANGED <<forkParent, blocks, reconcile, lastCall, grown,
                   lastBlock, cancelled, pending, received, logVars>>

\* HeadSame without the comparison with lastBlock: the head last seen is
\* handed to the callback again.
HeadSameRedeliver(h) ==
    /\ pc = "fetching"
    /\ lastBlock # NoBlock
    /\ lastBlock.hash = h
    /\ polled' = h
    /\ pending' = BlockOf(h)
    /\ pc' = "send"
    /\ UNCHANGED <<forkParent, blocks, reconcile, lastCall, grown,
                   lastBlock, timerFired, cancelled, received, logVars>>

\* BlockByNumber returned the block with hash h, the head last seen: continue.
HeadSame(h) ==
    /\ pc = "fetching"
    /\ lastBlock # NoBlock
    /\ lastBlock.hash = h
    /\ polled' = h
    /\ Continue
    /\ UNCHANGED <<forkParent, blocks, reconcile, lastCall, grown,
                   lastBlock, cancelled, pending, received, logVars>>

\* HeadPlainStep with the reconcile flag not looked at: the callback runs
\* b.handleReconcile(block) before the send.
HeadPlainReconciles(h) ==
    /\ pc = "fetching"
    /\ ~(lastBlock # NoBlock /\ lastBlock.hash = h)
    /\ ~reconcile
    /\ polled' = h
    /\ lastBlock' = BlockOf(h)
    /\ Call(BlockOf(h), 0)
    /\ IF lastCall'.panic
       THEN pc' = "panic" /\ pending' = pending
       ELSE pc' = "send" /\ pending' = BlockOf(h)
    /\ UNCHANGED <<forkParent, reconcile, timerFired, cancelled, received>>

\* HeadPlainStep with a send that does not wait for the consumer: the
\* callback returns at once and the loop goes round.
HeadPlainNoWait(h) ==
    /\ pc = "fetching"
    /\ ~(lastBlock # NoBlock /\ lastBlock.hash = h)
    /\ ~reconcile
    /\ polled' = h
    /\ lastBlock' = BlockOf(h)
    /\ pending' = BlockOf(h)
    /\ Continue
    /\ UNCHANGED <<forkParent, blocks, reconcile, lastCall, grown,
                   cancelled, received>>

\* BlockByNumber returned a new head, reconcile is off: the callback goes
\* straight to b.EventCh <- block.
HeadPlainStep(h) ==
    /\ pc = "fetching"
    /\ ~(lastBlock # NoBlock /\ lastBlock.hash = h)
    /\ ~reconcile
    /\ polled' = h
    /\ lastBlock' = BlockOf(h)
    /\ pending' = BlockOf(h)
    /\ pc' = "send"
    /\ UNCHANGED <<forkParent, blocks, reconcile, lastCall, grown,
                   timerFired, cancelled, received>>

HeadPlain(h) == HeadPlainStep(h) /\ UNCHANGED logVars

\* HeadReconcileStep with lastBlock assigned after the callback: a head
\* whose reconciliation failed is not recorded.
HeadReconcileRecordsAfter(h, failAt) ==
    /\ pc = "fetching"
    /\ ~(lastBlock # NoBlock /\ lastBlock.hash = h)
    /\ reconcile
    /\ polled' = h
    /\ Call(BlockOf(h), failAt)
    /\ IF lastCall'.panic
       THEN pc' = "panic" /\ pending' = pending /\ lastBlock' = lastBlock
       ELSE pc' = "send" /\ pending' = BlockOf(h) /\ lastBlock' = BlockOf(h)
    /\ UNCHANGED <<forkParent, reconcile, timerFired, cancelled, received>>

\* BlockByNumber returned a new head, reconcile is on: the callback runs
\* b.handleReconcile(block); a panic in it ends the process, otherwise the
\* callback goes on to b.EventCh <- block.
HeadReconcileStep(h, failAt) ==
    /\ pc = "fetching"
    /\ ~(lastBlock # NoBlock /\ lastBlock.hash = h)
    /\ reconcile
    /\ polled' = h
    /\ lastBlock' = BlockOf(h)
    /\ Call(BlockOf(h), failAt)
    /\ IF lastCall'.panic
       THEN pc' = "panic" /\ pending' = pending
       ELSE pc' = "send" /\ pending' = BlockOf(h)
    /\ UNCHANGED <<forkParent, reconcile, timerFired, cancelled, received>>

HeadReconcile(h, failAt) == HeadReconcileStep(h, failAt) /\ UNCHANGED logVars

\* The consumer receives from EventCh; the callback returns and the loop
\* goes round.
ConsumeStep ==
    /\ pc = "send"
    /\ received' = pending
    /\ pending' = NoBlock
    /\ polled' = NoPoll
    /\ Continue
    /\ UNCHANGED <<forkParent, blocks, reconcile, lastCall, grown,
                   lastBlock, cancelled>>

Consume == ConsumeStep /\ UNCHANGED logVars

NextWorker ==
    \/ Start
    \/ TimerFire
    \/ Cancel
    \/ SelectDone
    \/ SelectTick
    \/ HeadError
    \/ \E h \in Hashes : HeadSame(h)
    \/ \E h \in Hashes : HeadPlain(h)
    \/ \E h \in Hashes, failAt \in FailPoints : HeadReconcile(h, failAt)
    \/ Consume

SpecWorker == Init /\ [][NextWorker]_vars

\* The worker with the log of what is sent on and received from EventCh:
\* the hand-off actions below write the log, the other actions are the
\* worker's.  The log is bounded by MaxDeliveries.
HeadPlainLogged(h) ==
    /\ Len(produced) < MaxDeliveries
    /\ HeadPlainStep(h)
    /\ produced' = Append(produced, BlockOf(h))
    /\ consumed' = consumed

HeadReconcileLogged(h, failAt) ==
    /\ Len(produced) < MaxDeliveries
    /\ HeadReconcileStep(h, failAt)
    /\ produced' = IF pc' = "send" THEN Append(produced, BlockOf(h))
                                   ELSE produced
    /\ consumed' = consumed

ConsumeLogged ==
    /\ ConsumeStep
    /\ consumed' = Append(consumed, pending)
    /\ produced' = produced

NextOrder ==
    \/ Start
    \/ TimerFire
    \/ Cancel
    \/ SelectDone
    \/ SelectTick
    \/ HeadError
    \/ \E h \in Hashes : HeadSame(h)
    \/ \E h \in Hashes : HeadPlainLogged(h)
    \/ \E h \in Hashes, failAt \in FailPoints : HeadReconcileLogged(h, failAt)
    \/ ConsumeLogged

SpecOrder == Init /\ [][NextOrder]_vars

\* BlockByNumber answers and the answer is handled.
FetchReturns ==
    \/ HeadError
    \/ \E h \in Hashes : HeadSame(h)
    \/ \E h \in Hashes : HeadPlain(h)
    \/ \E h \in Hashes, failAt \in FailPoints : HeadReconcile(h, failAt)

\* The worker under the provisos of its termination: the goroutine runs
\* when its select can leave through ctx.Done(), a call of BlockByNumber
\* returns, and the consumer receives a value that is being sent.
SpecWorkerFair ==
    /\ SpecWorker
    /\ WF_vars(SelectDone)
    /\ WF_vars(FetchReturns)
    /\ WF_vars(Consume)

---------------------------------------------------------------------------
(* Vocabulary of the properties                                            *)

\* The hashes held by a history.
HashesOf(bs) == { bs[i].hash : i \in 1..Len(bs) }

\* The last n entries of a sequence.
LastN(s, n) == IF Len(s) <= n THEN s ELSE SubSeq(s, Len(s) - n + 1, Len(s))

\* The ancestry of the block with hash h that is not in known, oldest
\* first and ending with that block: Pk, ..., P1, X.
RECURSIVE PathTo(_, _)
PathTo(h, known) ==
    IF h = NoHash \/ h \in known
    THEN <<>>
    ELSE Append(PathTo(ParentOf(h), known), BlockOf(h))

\* Where that ancestry joins known: a hash of known, or NoHash.
RECURSIVE Anchor(_, _)
Anchor(h, known) ==
    IF h = NoHash \/ h \in known THEN h ELSE Anchor(ParentOf(h), known)

\* The hashes a backfill of that ancestry asks for: P1, ..., Pk.
FetchOrder(path) ==
    [j \in 1..(Len(path) - 1) |-> path[Len(path) - j].hash]

\* The last call found its block X absent from a non-empty history.
CalledAbsent ==
    /\ lastCall # NoCall
    /\ lastCall.before # <<>>
    /\ lastCall.block.hash \notin HashesOf(lastCall.before)

\* The last call's block has its parent at position i (from 1) of the old
\* history, and that is not the last position.
ParentAt(i) ==
    /\ CalledAbsent
    /\ i \in 1..(Len(lastCall.before) - 1)
    /\ lastCall.block.parent = lastCall.before[i].hash

---------------------------------------------------------------------------
(* C1                                                                      *)

---------------------------------------------------------------------------
(* C2, C3                                                                  *)

\* The absent ancestry Pk, ..., P1, X of the last call's block.
CallPath == PathTo(lastCall.block.hash, HashesOf(lastCall.before))

\* The last call's block X was absent, k >= 1 absent ancestors lead from it
\* to the old history entry at position i (from 1), and the remote answered
\* the k requests for them.
GapTo(i) ==
    /\ CalledAbsent
    /\ i \in 1..Len(lastCall.before)
    /\ Len(CallPath) >= 2
    /\ Anchor(lastCall.block.hash, HashesOf(lastCall.before)) = lastCall.before[i].hash
    /\ (lastCall.failAt = 0 \/ lastCall.failAt > Len(CallPath) - 1)

---------------------------------------------------------------------------
(* C4                                                                      *)

\* The last call's block was already held by the history it ran on.
CalledHeld ==
    /\ lastCall # NoCall
    /\ lastCall.block.hash \in HashesOf(lastCall.before)

\* A call on a block the history holds, at any position, yields no event,
\* asks the remote for nothing and leaves the history as it was.
HeldIsNoOp ==
    CalledHeld =>
        /\ ~lastCall.panic
        /\ lastCall.ev = NoEvent
        /\ lastCall.fetched = <<>>
        /\ blocks = lastCall.before

\* A step that calls handleReconcile again on the block of the call before
\* yields no event and leaves the history as it was.
RepeatIsNoOp ==
    (lastCall # NoCall /\ lastCall'.block = lastCall.block) =>
        /\ lastCall'.ev = NoEvent
        /\ lastCall'.before = blocks
        /\ blocks' = blocks

\* C4: idempotence.  Reconciling a block whose hash the history already
\* holds at any position yields no event and leaves the history unchanged;
\* and when the same block is reconciled twice in a row, the second call
\* yields no event and changes nothing.
C4_Idempotent == []HeldIsNoOp /\ [][RepeatIsNoOp]_vars

\* A block held in the middle of a history of three or more was reconciled.
C4_Witness ==
    /\ CalledHeld
    /\ Len(lastCall.before) >= 3
    /\ \E i \in 2..(Len(lastCall.before) - 1) :
           lastCall.before[i].hash = lastCall.block.hash

---------------------------------------------------------------------------
(* C5                                                                      *)

---------------------------------------------------------------------------
(* C6                                                                      *)

\* C6: all-or-nothing.  When a request for an ancestor fails during a call,
\* at the first hop or after earlier hops succeeded, the history after the
\* call is the history before it.
C6_AllOrNothing ==
    lastCall.panic => blocks = lastCall.before

\* A request failed after two earlier ones of the same call had succeeded,
\* on a history of two or more blocks.
C6_Witness ==
    /\ lastCall.panic
    /\ Len(lastCall.fetched) >= 3
    /\ Len(lastCall.before) >= 2

---------------------------------------------------------------------------
(* C8                                                                      *)

\* C8: capacity bound.  The history never holds more than 10 blocks, and
\* appending the child of the last entry to a history of exactly 10 blocks
\* removes the entry at index 0 and keeps the other 9 in order before it.
C8_Capacity ==
    /\ Len(blocks) <= maxReconcileBlocks
    /\ ( /\ CalledAbsent
         /\ Len(lastCall.before) = maxReconcileBlocks
         /\ lastCall.block.parent = lastCall.before[maxReconcileBlocks].hash )
       => /\ Len(blocks) = maxReconcileBlocks
          /\ \A i \in 1..(maxReconcileBlocks - 1) : blocks[i] = lastCall.before[i + 1]
          /\ blocks[maxReconcileBlocks] = lastCall.block

\* A child of the last entry was appended to a history of 10 blocks.
C8_Witness ==
    /\ CalledAbsent
    /\ Len(lastCall.before) = maxReconcileBlocks
    /\ lastCall.block.parent = lastCall.before[maxReconcileBlocks].hash

\* A call backfilled more than 10 ancestors.
C8_LongBackfill ==
    ~lastCall.panic /\ Len(lastCall.fetched) > maxReconcileBlocks

---------------------------------------------------------------------------
(* C9                                                                      *)

\* C9: chain link.  After every call, every adjacent pair (prev, next) of
\* the history satisfies next.ParentHash = prev.Hash.
C9_ChainLinked ==
    \A i \in 1..(Len(blocks) - 1) : blocks[i + 1].parent = blocks[i].hash

\* A call that rolled back and backfilled left a history of three or more.
C9_Witness ==
    /\ Len(blocks) >= 3
    /\ ~lastCall.panic
    /\ lastCall.ev.Removed # <<>>
    /\ lastCall.fetched # <<>>

---------------------------------------------------------------------------
(* C7, C10: the worker                                                     *)

\* C7 as stated: a failed request for an ancestor is not fatal.  The
\* polling goroutine never dies of it: it is waiting, fetching or handing
\* off, or it has returned on cancellation.
C7_Original ==
    pc \in {"new", "select", "fetching", "send", "returned"}

\* C10 as stated: in reconcile mode the consumer is handed something only
\* for a reconciliation that changed the history, and nothing for a head
\* the history already held.
C10_Original ==
    (reconcile /\ pc = "send") => blocks # lastCall.before

---------------------------------------------------------------------------
(* C11 .. C16: the poller                                                  *)

\* A step in which BlockByNumber returns and its answer is handled.
PollReturn == pc = "fetching" /\ pc' # "fetching"

\* A poll that returned the head last observed went back to the wait and
\* touched nothing.
SameHeadFiltered ==
    (PollReturn /\ lastBlock # NoBlock /\ polled' = lastBlock.hash)
        => /\ pc' = "select"
           /\ UNCHANGED <<blocks, lastBlock, lastCall, pending, received>>

\* The value in hand-off is not the head the consumer received last.
DeliveriesDiffer ==
    (pc = "send" /\ received # NoBlock) => pending.hash # received.hash

\* C11: unchanged-head filter.  When a poll returns a head whose hash is
\* the last observed hash, the poller neither reconciles nor hands off
\* anything, and the history and the last observed head are unchanged;
\* two consecutive deliveries never carry the same head hash.
C11_UnchangedHead == [][SameHeadFiltered]_vars /\ []DeliveriesDiffer

\* The head that was delivered has been polled again and filtered.
C11_Witness ==
    /\ pc = "select"
    /\ received # NoBlock
    /\ polled = received.hash
    /\ lastBlock = received

\* A poll that returned an error went back to the wait for the next tick
\* and touched nothing.
HeadErrorSwallowed ==
    (PollReturn /\ polled' = NoHash)
        => /\ pc' = "select"
           /\ ~timerFired'
           /\ UNCHANGED <<blocks, lastBlock, lastCall, pending, received,
                          reconcile>>

\* C12: a failed fetch of the current head is swallowed.  It changes
\* neither the last observed head nor the history, hands off nothing, and
\* the worker goes back to waiting for the next tick; what the next poll
\* is handled from (history, last observed head, mode) is what it was
\* before the failures.
C12_HeadErrorSwallowed == [][HeadErrorSwallowed]_vars

\* A head fetch failed after a head had been reconciled and delivered.
C12_Witness ==
    /\ pc = "select"
    /\ polled = NoHash
    /\ blocks # <<>>
    /\ received = lastBlock

\* A value is in hand-off only while the worker is blocked in the send.
OneInFlight == pending # NoBlock => pc = "send"

\* While a value is in hand-off the worker fetches and reconciles nothing:
\* the only step that moves it is the consumer's receive of that value.
BlockedWhilePending ==
    pending # NoBlock
        => /\ UNCHANGED <<blocks, lastBlock, lastCall, polled>>
              \/ (pc' = "select" /\ polled' = NoPoll
                    /\ UNCHANGED <<blocks, lastBlock, lastCall>>)
           /\ pc' \in {"send", "select"}
           /\ pc' = "send" => pending' = pending
           /\ pc' = "select" => (pending' = NoBlock /\ received' = pending)

\* C13: backpressure.  The hand-off to the consumer is blocking: the
\* worker starts no head fetch and no reconciliation while a value it
\* produced has not been received, and at most one produced value is
\* undelivered at any time.
C13_Backpressure == []OneInFlight /\ [][BlockedWhilePending]_vars

\* The worker is blocked in the send of a second value and the
\* cancellation was raised meanwhile.
C13_Witness ==
    /\ pc = "send"
    /\ pending # NoBlock
    /\ received # NoBlock
    /\ cancelled

\* The goroutine has ended: polling returned, or a panic ended the process.
Terminated == pc \in {"returned", "panic"}

\* Once the cancellation is raised the worker starts no head fetch.
NoFetchOnceCancelled == cancelled => ~(pc = "select" /\ pc' = "fetching")

\* A wait whose timer has not fired when the cancellation is up ends in
\* the return and in nothing else: the timer does not fire any more.
StopsAtWait ==
    (cancelled /\ pc = "select" /\ ~timerFired)
        => (pc' \in {"select", "returned"} /\ ~timerFired')

\* Every wait entered with the cancellation up starts with a new timer.
FreshWait == (cancelled' /\ pc # "select" /\ pc' = "select") => ~timerFired'

\* After the end nothing is fetched, reconciled or handed off.
Halted ==
    Terminated => UNCHANGED <<pc, blocks, lastBlock, lastCall, polled,
                              pending, received>>

\* C14 as stated: cooperative cancellation.  Once the cancellation is
\* raised the worker starts no new head fetch; it ends eventually, given
\* that a fetch in flight returns and the consumer receives a value in
\* hand-off; after the end nothing is fetched, changed or handed off.
C14_Original ==
    /\ [][NoFetchOnceCancelled]_vars
    /\ cancelled ~> Terminated
    /\ [][Halted]_vars

\* C14 amended: as C14, except that a wait whose timer had already fired
\* when the cancellation was raised may still end in one more poll: only
\* a wait whose timer has not fired is sure to end in the return, and
\* every wait entered after the cancellation is such a wait.
C14_Cancellation ==
    /\ [][StopsAtWait]_vars
    /\ [][FreshWait]_vars
    /\ cancelled ~> Terminated
    /\ [][Halted]_vars

\* The worker returned on cancellation after it had reconciled and
\* delivered heads.
C14_Witness ==
    /\ pc = "returned"
    /\ cancelled
    /\ blocks # <<>>
    /\ received = lastBlock

\* s is an initial part of t.
IsPrefix(s, t) == Len(s) <= Len(t) /\ s = SubSeq(t, 1, Len(s))

\* C15: delivery order.  The consumer receives the values in exactly the
\* order in which the worker produced them, which is the order in which
\* the new heads were observed: what was received is what was produced,
\* entry by entry, but for the one value in hand-off; nothing is received
\* twice, left out or overtaken.
C15_DeliveryOrder ==
    /\ IsPrefix(consumed, produced)
    /\ IF pc = "send"
       THEN produced = Append(consumed, pending)
       ELSE produced = consumed
    /\ (produced # <<>> /\ pc # "panic")
           => produced[Len(produced)] = lastBlock
    /\ \A i \in 1..(Len(produced) - 1) :
           produced[i].hash # produced[i + 1].hash

\* MaxDeliveries heads were received in reconcile mode, the last one a
\* head whose reconciliation backfilled a gap.
C15_Witness ==
    /\ Len(consumed) = MaxDeliveries
    /\ consumed[MaxDeliveries] = lastCall.block
    /\ lastCall.fetched # <<>>
    /\ reconcile

\* With reconcile off the reconciler is never called, no block is fetched
\* by hash and the history stays empty.
ReconcilerIdle == ~reconcile => (blocks = <<>> /\ lastCall = NoCall)

\* With reconcile off a poll that returns a head other than the last
\* observed one hands off that block.
NewHeadHandedOff ==
    (/\ ~reconcile
     /\ PollReturn
     /\ polled' # NoHash
     /\ lastBlock # NoBlock => polled' # lastBlock.hash)
        => /\ pc' = "send"
           /\ pending' = BlockOf(polled')
           /\ lastBlock' = BlockOf(polled')

\* With reconcile off the consumer receives the block in hand-off.
HandOffReceived ==
    (~reconcile /\ pc = "send" /\ pc' # "send") => received' = pending

\* C16: non-reconciling mode.  With reconcile disabled every newly
\* observed head (hash other than the last observed one) is delivered to
\* the consumer as that single block; the reconciler is never called, no
\* block is fetched by hash and the history stays empty for the whole run.
C16_PlainMode ==
    /\ []ReconcilerIdle
    /\ [][NewHeadHandedOff]_vars
    /\ [][HandOffReceived]_vars

\* With reconcile off a head older than the one received before it is in
\* hand-off.
C16_Witness ==
    /\ ~reconcile
    /\ pc = "send"
    /\ received # NoBlock
    /\ pending.hash < received.hash
    /\ pending.parent # received.hash

---------------------------------------------------------------------------
(* C17 .. C20: the reconciler                                              *)

\* The last call found its block X absent from a non-empty history that
\* the ancestry of X does not meet: the chain of X leaves the tracker's
\* chain below the oldest entry kept, or never joins it.
CalledBeyondHistory ==
    /\ CalledAbsent
    /\ Anchor(lastCall.block.hash, HashesOf(lastCall.before)) = NoHash

\* The requests of a call that walks the whole ancestry of X: P1, ..., the
\* oldest block, and the parent hash of the oldest block, which no block
\* has.
WalkToEnd == FetchOrder(PathTo(lastCall.block.hash, {})) \o <<NoHash>>

\* The request of that walk that fails: the injected one, else the last.
WalkFails ==
    IF lastCall.failAt \in 1..Len(WalkToEnd)
    THEN lastCall.failAt
    ELSE Len(WalkToEnd)

\* The block with hash h is X or a descendant of X.
OnBranchOf(x, h) == x \in HashesOf(PathTo(h, {}))

\* X is on a branch of its own: no entry of the history descends from it.
ForkedOff ==
    \A i \in 1..Len(lastCall.before) :
        ~OnBranchOf(lastCall.block.hash, lastCall.before[i].hash)

\* Reconciling any head of the branch of X from the present history fails
\* and leaves the history as it is.
BranchKeepsFailing ==
    \A h \in Hashes, failAt \in FailPoints :
        (ForkedOff /\ OnBranchOf(lastCall.block.hash, h)) =>
            LET r == handleReconcile(NewCall(blocks), BlockOf(h), failAt)
            IN  /\ r.panic
                /\ r.blocks = blocks
                /\ r.ev = NoEvent

\* C17: retention exhaustion.  When the ancestry of the observed block
\* joins the tracker's chain only below the oldest entry kept (or not at
\* all), the reconciler does not stop at the fork point: it asks for one
\* ancestor after the other until a request fails; the call fails, the
\* history is unchanged, no rollback is recorded, and every later head on
\* that branch (the branch that left the tracker's chain) fails the same
\* way.
C17_RetentionExhausted ==
    CalledBeyondHistory =>
        /\ lastCall.panic
        /\ blocks = lastCall.before
        /\ lastCall.ev = NoEvent
        /\ lastCall.fetched = SubSeq(WalkToEnd, 1, WalkFails)
        /\ BranchKeepsFailing

\* On a full history that no longer holds the fork point, the head of the
\* fork was reconciled: the fork point was requested and found, and the
\* requests went on below it.
C17_Witness ==
    /\ CalledBeyondHistory
    /\ Len(lastCall.before) = maxReconcileBlocks
    /\ forkParent # NoHash
    /\ lastCall.block.parent = forkParent
    /\ Len(lastCall.fetched) >= 2
    /\ ForkedOff

\* The answer the remote gave to the j-th request of the last call.
Answer(j) == BlockByHash(lastCall.failAt, j, lastCall.fetched[j])

\* C18: reconcile termination.  With a remote that holds a finite, acyclic
\* set of blocks every call ends: it makes one request per hop up the
\* ancestry, each for a block the history does not hold and none for a
\* hash it asked before; it ends with success at an ancestor whose parent
\* is in the history, or with failure at the first request that fails.
C18_Terminates ==
    LET fetched == lastCall.fetched
        n       == Len(fetched)
        held    == HashesOf(lastCall.before)
    IN  /\ n <= Len(WalkToEnd)
        /\ fetched = SubSeq(WalkToEnd, 1, n)
        /\ \A i, j \in 1..n : i # j => fetched[i] # fetched[j]
        /\ \A j \in 1..n : fetched[j] \notin held
        /\ \A j \in 1..(n - 1) : ~Answer(j).err
        /\ lastCall.panic <=> (n > 0 /\ Answer(n).err)
        /\ (~lastCall.panic /\ n > 0) => ParentOf(fetched[n]) \in held

\* A call walked three or more hops up the ancestry before it met the
\* history below the last entry, and succeeded.
C18_Witness ==
    /\ Len(lastCall.fetched) >= 3
    /\ ~lastCall.panic
    /\ lastCall.ev.Removed # <<>>

\* After a call that succeeded for a block the history did not hold, that
\* block is the last entry.
CalledBlockLast ==
    (/\ lastCall # NoCall
     /\ ~lastCall.panic
     /\ lastCall.block.hash \notin HashesOf(lastCall.before))
        => (blocks # <<>> /\ blocks[Len(blocks)] = lastCall.block)

\* No step empties a history that holds a block.
StaysNonEmpty == blocks # <<>> => blocks' # <<>>

\* C19: after a call that succeeds for a block X the history did not hold,
\* X is the last entry of the history, whichever path the call took
\* (empty, normal, rollback, backfill); and once the history holds a block
\* no call empties it.
C19_HeadIsLast == []CalledBlockLast /\ [][StaysNonEmpty]_vars

\* A call rolled back to the first entry and backfilled two or more
\* ancestors before it added its block.
C19_Witness ==
    /\ ~lastCall.panic
    /\ Len(lastCall.before) >= 2
    /\ Len(lastCall.ev.Removed) = Len(lastCall.before) - 1
    /\ Len(lastCall.fetched) >= 2
    /\ blocks[Len(blocks)] = lastCall.block

\* C20: in every reachable state of a tracker that started with an empty
\* history, with a remote whose parent links are acyclic, no two entries
\* of the history have the same hash.
C20_DistinctHashes ==
    \A i, j \in 1..Len(blocks) : i # j => blocks[i].hash # blocks[j].hash

\* The block of the last call was already in a full history, below the
\* last entry.
C20_Witness ==
    /\ Len(blocks) = maxReconcileBlocks
    /\ lastCall.before = blocks
    /\ \E i \in 1..(Len(blocks) - 1) : blocks[i] = lastCall.block

---------------------------------------------------------------------------
(* C21: the order of the record and the callback                           *)

\* The head of the last reconciliation, failed or not, is the head last
\* observed; so is the value in hand-off.
RecordedFirst ==
    /\ (reconcile /\ lastCall # NoCall) => lastBlock = lastCall.block
    /\ pc = "send" => pending = lastBlock

\* A reconciliation is made only in a step in which BlockByNumber returned
\* a head whose hash is not the last observed one, and that head is
\* recorded in the same step.
ReconciledOnlyWhenNew ==
    lastCall' # lastCall
        => /\ PollReturn
           /\ polled' = lastCall'.block.hash
           /\ lastBlock # NoBlock => polled' # lastBlock.hash
           /\ lastBlock' = lastCall'.block

===========================================================================
